---- MODULE Spec2Model ----
(***************************************************************************)
(* State-machine model of server.py: the schema.json record store guarded  *)
(* by _schema_lock, the background enrichment threads started by /submit,  *)
(* the synchronous /analyze path and the supervisory handlers              *)
(* (/api/essays, /api/essays/approve, /api/essays/send-report).            *)
(*                                                                         *)
(* Every Flask request and every background thread is a thread of the      *)
(* model.  A thread's position is pc[t]:                                   *)
(*   "idle"  no request is being served by t                               *)
(*   "gen"   blocked in load_achievement_standard_and_desc /               *)
(*           call_openai_for_feedback (outside the lock)                   *)
(*   "path"  about to call get_schema_path() inside _append_essay_safe     *)
(*   "lock"  path resolved, waiting at `with _schema_lock:`                *)
(*   "read"  lock held, about to call _read_essays_locked                  *)
(*   "write" lock held, list read and changed in memory, about to call     *)
(*           _write_essays_locked                                          *)
(*   "done"  the handler has returned (resp[t] is its HTTP status) or the  *)
(*           background thread has ended                                   *)
(*                                                                         *)
(* Environment: whether BASE_DIR is writable is a property of the          *)
(* deployment (local development: writable; serverless: read-only, see     *)
(* server.py lines 42-45).  It is chosen in Init and stays fixed for the   *)
(* life of the process.                                                    *)
(***************************************************************************)
EXTENDS Integers, Sequences, FiniteSets, TLC

VARIABLES
    clock,            \* datetime.utcnow(), in whole seconds
    primaryWritable,  \* can BASE_DIR/schema.json be opened for appending?
    fs,               \* the two candidate store files, by path
    lock,             \* _schema_lock: 0 when free, else the thread holding it
    issued,           \* process ids minted so far, in minting order
    pc,               \* position of each thread
    op,               \* which handler / thread body each thread runs
    arg,              \* request arguments of each thread
    now,              \* now_iso local of each thread
    path,             \* out_path local of each thread
    essays,           \* essays local of each thread
    resp,             \* HTTP status returned by each thread (0: none)
    nops              \* requests accepted so far that go on to use the store

vars == <<clock, primaryWritable, fs, lock, issued, pc, op, arg, now, path, essays, resp, nops>>

----------------------------------------------------------------------------
(* Bounds *)

NThreads == 2      \* threads that can be alive at once
MaxOps == 2        \* requests accepted in a run (those answered 400 aside)
MaxClock == 1      \* seconds the clock advances in a run

Threads == 1..NThreads

\* uuid4().hex[:6]: a random draw; two sample values of the 16^6 possible
HexSeq == <<"a3f9c1", "07bd2e">>
HexVals == {HexSeq[k] : k \in 1..Len(HexSeq)}

Seconds == 0..MaxClock

----------------------------------------------------------------------------
(* Values *)

NoId == <<>>                       \* a missing / empty process_id
NoTime == -1                       \* a timestamp key that is absent

\* f"proc_{utcnow:%Y%m%d_%H%M%S}_{uuid4().hex[:6]}"
MintId(sec, hex) == <<sec, hex>>

\* an id minted by an earlier run of the process, and one never minted
PriorId == MintId(-1, HexSeq[1])
UnknownId == MintId(-2, HexSeq[1])

Texts == {"", "essay"}             \* request text after .strip()
\* /api/essays/approve request bodies: final_feedback and lesson_feedback
\* after .strip() (lesson_feedback defaults to "")
ApproveBodies ==
    { [fb |-> "", lesson |-> ""],
      [fb |-> "fbA", lesson |-> ""],
      [fb |-> "fbB", lesson |-> "lesson"] }
ReportTypes == {"student", "parent", "other"}
GenOutcomes == {"ok", "load_failed", "gen_failed", "malformed", "build_failed"}

NoArg == [pid |-> NoId, text |-> "", fb |-> "", lesson |-> "", rtype |-> ""]

PRIMARY == "primary"               \* os.path.join(BASE_DIR, "schema.json")
TMP == "tmp"                       \* "/tmp/schema.json"
Paths == {PRIMARY, TMP}

\* A file is absent, a zero-byte file, or holds a dumped JSON list.
NoFile == [st |-> "absent", data |-> <<>>]
EmptyFile == [st |-> "empty", data |-> <<>>]
DocFile(list) == [st |-> "doc", data |-> list]
\* a file whose bytes no longer parse (a damaged dump of list)
CorruptFile(list) == [st |-> "corrupt", data |-> list]

----------------------------------------------------------------------------
(* Records *)

\* build_schema: the record appended for one submission.  Nested dicts are
\* flattened and keys that approve / send-report add later start absent.
\* Of the timestamp keys only metadata.updated_at is kept: created_at,
\* corrected_at, approved_at and *_sent_at carry the same now_iso as the
\* updated_at written with them.
build_schema(text, pid, t0) ==
    [ process_id |-> pid,
      status |-> "ai_drafted",
      current_step |-> 3,
      updated_at |-> t0,
      student_answer |-> text,
      ai_draft_feedback |-> "draft",
      final_feedback |-> "",
      teacher_final_feedback |-> "",
      tc_ai_draft_feedback |-> "",
      lesson_feedback |-> "",
      student_sent |-> FALSE,
      parent_sent |-> FALSE ]

\* Mutant of ApproveMutate: ai_feedback.ai_draft_feedback is overwritten with
\* the final feedback before the snapshot of the draft is taken from it.
ApproveMutate_OverwritesDraft(e, fb, lesson, t0) ==
    [ e EXCEPT !.status = "completed",
               !.current_step = 5,
               !.updated_at = t0,
               !.teacher_final_feedback = fb,
               !.tc_ai_draft_feedback = e.ai_draft_feedback,
               !.ai_draft_feedback = fb,
               !.lesson_feedback = lesson,
               !.final_feedback = fb ]

\* Mutant of ApproveMutate: the approval also starts report_status afresh.
ApproveMutate_ClearsReports(e, fb, lesson, t0) ==
    [ e EXCEPT !.status = "completed",
               !.current_step = 5,
               !.updated_at = t0,
               !.teacher_final_feedback = fb,
               !.tc_ai_draft_feedback = e.ai_draft_feedback,
               !.lesson_feedback = lesson,
               !.final_feedback = fb,
               !.student_sent = FALSE,
               !.parent_sent = FALSE ]

\* approve_essay, the in-memory change to the located record
ApproveMutate(e, fb, lesson, t0) ==
    [ e EXCEPT !.status = "completed",
               !.current_step = 5,
               !.updated_at = t0,
               !.teacher_final_feedback = fb,
               !.tc_ai_draft_feedback = e.ai_draft_feedback,
               !.lesson_feedback = lesson,
               !.final_feedback = fb ]

\* Mutant of SendMutate: report_status is replaced, not updated, so the other
\* flag is lost.
SendMutate_ReplacesStatus(e, rtype, t0) ==
    IF rtype = "student"
    THEN [ e EXCEPT !.student_sent = TRUE, !.parent_sent = FALSE, !.updated_at = t0 ]
    ELSE [ e EXCEPT !.parent_sent = TRUE, !.student_sent = FALSE, !.updated_at = t0 ]

\* send_report, the in-memory change to the located record
SendMutate(e, rtype, t0) ==
    IF rtype = "student"
    THEN [ e EXCEPT !.student_sent = TRUE, !.updated_at = t0 ]
    ELSE [ e EXCEPT !.parent_sent = TRUE, !.updated_at = t0 ]

\* Mutant of FindIndex: next(..., 0) in place of next(..., None), so that a
\* process_id that matches nothing selects the first record.
FindIndex_DefaultFirst(list, pid) ==
    IF \E i \in 1..Len(list) : list[i].process_id = pid
    THEN CHOOSE i \in 1..Len(list) :
            /\ list[i].process_id = pid
            /\ \A j \in 1..(i - 1) : list[j].process_id # pid
    ELSE IF Len(list) > 0 THEN 1 ELSE 0

\* next((i for i, e in enumerate(essays) if ... == process_id), None); 0 is None
FindIndex(list, pid) ==
    IF \E i \in 1..Len(list) : list[i].process_id = pid
    THEN CHOOSE i \in 1..Len(list) :
            /\ list[i].process_id = pid
            /\ \A j \in 1..(i - 1) : list[j].process_id # pid
    ELSE 0

----------------------------------------------------------------------------
(* The store file *)

\* get_schema_path: the path it returns
get_schema_path == IF primaryWritable THEN PRIMARY ELSE TMP

\* Mutant of ProbeEffect: the probe opens with "w" and truncates the file.
ProbeEffect_Truncates(f) ==
    IF primaryWritable
    THEN [f EXCEPT ![PRIMARY] = EmptyFile]
    ELSE f

\* get_schema_path: what open(primary, "a") does to the file system
ProbeEffect(f) ==
    IF primaryWritable /\ f[PRIMARY].st = "absent"
    THEN [f EXCEPT ![PRIMARY] = EmptyFile]
    ELSE f

\* Mutant of _read_essays_locked: the records that can still be made out in
\* a damaged file are returned.
_read_essays_locked_Salvages(file) ==
    IF file.st = "absent" THEN <<>> ELSE file.data

\* Mutant of _read_essays_locked: a file that does not parse is taken as the
\* data None and falls through to `[data]`, a list of one placeholder.
_read_essays_locked_WrapsNull(file) ==
    IF file.st = "absent" THEN <<>>
    ELSE IF file.st = "doc" THEN file.data
    ELSE <<build_schema("", NoId, NoTime)>>

\* _read_essays_locked: missing file -> []; json.load failure -> []
_read_essays_locked(file) ==
    IF file.st = "absent" THEN <<>>
    ELSE IF file.st = "doc" THEN file.data
    ELSE <<>>

\* _write_essays_locked: open(out_path, "w") and json.dump of the whole list
_write_essays_locked(f, out_path, list) == [f EXCEPT ![out_path] = DocFile(list)]

\* Mutant of LockFree: the critical section is entered without the lock
\* (the `with` is missing).
LockFree_NoLock == TRUE

\* `with _schema_lock:` can be entered
LockFree == lock = 0

----------------------------------------------------------------------------
(* Threads *)

Range(seq) == {seq[k] : k \in 1..Len(seq)}

\* The values a uuid4().hex[:6] draw is taken from: one drawn before, or a
\* new one.  The values are interchangeable, so the new one is the first of
\* HexSeq not drawn yet.
UsedHex == {id[2] : id \in Range(issued)}
Draws ==
    UsedHex \cup (IF Cardinality(UsedHex) < Len(HexSeq)
                  THEN {HexSeq[Cardinality(UsedHex) + 1]} ELSE {})

\* The process_id values a supervisory request carries: an id handed out by
\* /submit or /analyze, or one that matches nothing
RequestIds == Range(issued) \cup {UnknownId}

Idle == {t \in Threads : pc[t] = "idle"}

\* The thread that serves the next request / is started next: threads are
\* interchangeable, the lowest-numbered free one is taken.
FirstOf(S) == CHOOSE t \in S : \A u \in S : t <= u

TypeOK ==
    /\ clock \in Seconds
    /\ primaryWritable \in BOOLEAN
    /\ \A p \in Paths : fs[p].st \in {"absent", "empty", "doc", "corrupt"}
    /\ lock \in {0} \cup Threads
    /\ \A t \in Threads :
          /\ pc[t] \in {"idle", "gen", "path", "lock", "read", "write", "done"}
          /\ op[t] \in {"none", "submit", "bg", "analyze", "get", "approve", "send"}
          /\ resp[t] \in {0, 200, 400, 404, 500}

Init ==
    /\ clock = 0
    /\ primaryWritable \in BOOLEAN
    /\ fs = [p \in Paths |-> NoFile]
    /\ lock = 0
    /\ issued = <<>>
    /\ pc = [t \in Threads |-> "idle"]
    /\ op = [t \in Threads |-> "none"]
    /\ arg = [t \in Threads |-> NoArg]
    /\ now = [t \in Threads |-> NoTime]
    /\ path = [t \in Threads |-> "none"]
    /\ essays = [t \in Threads |-> <<>>]
    /\ resp = [t \in Threads |-> 0]
    /\ nops = 0

\* schema.json as an earlier run left it: one record, as appended.  Only a
\* store under BASE_DIR outlives the process (/tmp is reset on restart).
InitStored ==
    /\ clock = 0
    /\ primaryWritable = TRUE
    /\ fs = [p \in Paths |->
              IF p = get_schema_path
              THEN DocFile(<<build_schema("essay", PriorId, 0)>>)
              ELSE NoFile]
    /\ lock = 0
    /\ issued = <<PriorId>>
    /\ pc = [t \in Threads |-> "idle"]
    /\ op = [t \in Threads |-> "none"]
    /\ arg = [t \in Threads |-> NoArg]
    /\ now = [t \in Threads |-> NoTime]
    /\ path = [t \in Threads |-> "none"]
    /\ essays = [t \in Threads |-> <<>>]
    /\ resp = [t \in Threads |-> 0]
    /\ nops = 0

\* schema.json as an earlier run left it, damaged since: it held one record
\* and does not parse any more
InitCorrupt ==
    /\ clock = 0
    /\ primaryWritable = TRUE
    /\ fs = [p \in Paths |->
              IF p = get_schema_path
              THEN CorruptFile(<<build_schema("essay", PriorId, 0)>>)
              ELSE NoFile]
    /\ lock = 0
    /\ issued = <<PriorId>>
    /\ pc = [t \in Threads |-> "idle"]
    /\ op = [t \in Threads |-> "none"]
    /\ arg = [t \in Threads |-> NoArg]
    /\ now = [t \in Threads |-> NoTime]
    /\ path = [t \in Threads |-> "none"]
    /\ essays = [t \in Threads |-> <<>>]
    /\ resp = [t \in Threads |-> 0]
    /\ nops = 0

\* the process ids of N background threads that /submit started one second
\* after the other
AppendId(t) == MintId(t - NThreads, HexSeq[1])

\* N background threads, each blocked on its generator call, over a store
\* that does not exist yet
InitAppend ==
    /\ clock = 0
    /\ primaryWritable \in BOOLEAN
    /\ fs = [p \in Paths |-> NoFile]
    /\ lock = 0
    /\ issued = [t \in Threads |-> AppendId(t)]
    /\ pc = [t \in Threads |-> "gen"]
    /\ op = [t \in Threads |-> "bg"]
    /\ arg = [t \in Threads |-> [NoArg EXCEPT !.pid = AppendId(t), !.text = "essay"]]
    /\ now = [t \in Threads |-> NoTime]
    /\ path = [t \in Threads |-> "none"]
    /\ essays = [t \in Threads |-> <<>>]
    /\ resp = [t \in Threads |-> 0]
    /\ nops = NThreads

\* datetime.utcnow() is read: any number d of seconds may have passed since
\* the clock was last read (time matters only where it is read)
ReadClock(d) ==
    /\ clock + d <= MaxClock
    /\ clock' = clock + d

\* a request is accepted that goes on to use the store
Accept ==
    /\ nops < MaxOps
    /\ nops' = nops + 1

----------------------------------------------------------------------------
(* Handlers and thread bodies *)

\* submit() with an empty text: 400
SubmitEmpty(t) ==
    /\ Idle # {} /\ t = FirstOf(Idle)
    /\ pc' = [pc EXCEPT ![t] = "done"]
    /\ op' = [op EXCEPT ![t] = "submit"]
    /\ resp' = [resp EXCEPT ![t] = 400]
    /\ UNCHANGED <<clock, primaryWritable, fs, lock, issued, arg, now, path, essays, nops>>

\* submit(): mint process_id, start the background thread b, answer 200
Submit(t, text, hex, d) ==
    /\ Idle # {} /\ t = FirstOf(Idle)
    /\ text # ""
    /\ Idle \ {t} # {}
    /\ Accept
    /\ ReadClock(d)
    /\ LET b == FirstOf(Idle \ {t})
           id == MintId(clock', hex)
       IN /\ issued' = Append(issued, id)
          /\ pc' = [pc EXCEPT ![t] = "done", ![b] = "gen"]
          /\ op' = [op EXCEPT ![t] = "submit", ![b] = "bg"]
          /\ arg' = [arg EXCEPT ![t] = [NoArg EXCEPT !.pid = id, !.text = text],
                                ![b] = [NoArg EXCEPT !.pid = id, !.text = text]]
          /\ resp' = [resp EXCEPT ![t] = 200]
    /\ UNCHANGED <<primaryWritable, fs, lock, now, path, essays>>

\* Mutant of Analyze: the whole of load + generate + build + append is put
\* inside `with _schema_lock:`.
Analyze_UnderLock(t, text) ==
    /\ Idle # {} /\ t = FirstOf(Idle)
    /\ op' = [op EXCEPT ![t] = "analyze"]
    /\ \/ /\ text = ""
          /\ pc' = [pc EXCEPT ![t] = "done"]
          /\ resp' = [resp EXCEPT ![t] = 400]
          /\ UNCHANGED <<arg, nops, lock>>
       \/ /\ text # ""
          /\ Accept
          /\ LockFree
          /\ lock' = t
          /\ pc' = [pc EXCEPT ![t] = "gen"]
          /\ arg' = [arg EXCEPT ![t] = [NoArg EXCEPT !.text = text]]
          /\ resp' = resp
    /\ UNCHANGED <<clock, primaryWritable, fs, issued, now, path, essays>>

\* analyze(): validate (400 on an empty text), then block on the generator in
\* the request thread
Analyze(t, text) ==
    /\ Idle # {} /\ t = FirstOf(Idle)
    /\ op' = [op EXCEPT ![t] = "analyze"]
    /\ \/ /\ text = ""
          /\ pc' = [pc EXCEPT ![t] = "done"]
          /\ resp' = [resp EXCEPT ![t] = 400]
          /\ UNCHANGED <<arg, nops>>
       \/ /\ text # ""
          /\ Accept
          /\ pc' = [pc EXCEPT ![t] = "gen"]
          /\ arg' = [arg EXCEPT ![t] = [NoArg EXCEPT !.text = text]]
          /\ resp' = resp
    /\ UNCHANGED <<clock, primaryWritable, fs, lock, issued, now, path, essays>>

\* load_achievement_standard_and_desc + call_openai_for_feedback + build_schema
\* succeed.  build_schema reads the clock and mints a process_id of its own;
\* the background thread overwrites it with the one /submit minted, /analyze
\* keeps it.
GenerateOk(t, hex, d) ==
    /\ pc[t] = "gen"
    /\ ReadClock(d)
    /\ now' = [now EXCEPT ![t] = clock']
    /\ pc' = [pc EXCEPT ![t] = "path"]
    /\ IF op[t] = "analyze"
       THEN /\ arg' = [arg EXCEPT ![t].pid = MintId(clock', hex)]
            /\ issued' = Append(issued, MintId(clock', hex))
       ELSE /\ arg' = arg
            /\ issued' = issued
    /\ UNCHANGED <<primaryWritable, fs, lock, op, path, essays, resp, nops>>

\* any of them raises: the background thread logs and ends, /analyze answers 500
GenerateFail(t, outcome) ==
    /\ pc[t] = "gen"
    /\ outcome # "ok"
    /\ pc' = [pc EXCEPT ![t] = "done"]
    /\ resp' = [resp EXCEPT ![t] = IF op[t] = "analyze" THEN 500 ELSE 0]
    /\ UNCHANGED <<clock, primaryWritable, fs, lock, issued, op, arg, now, path, essays, nops>>

\* _append_essay_safe: out_path = get_schema_path(), before the lock
ResolvePath(t) ==
    /\ pc[t] = "path"
    /\ fs' = ProbeEffect(fs)
    /\ path' = [path EXCEPT ![t] = get_schema_path]
    /\ pc' = [pc EXCEPT ![t] = "lock"]
    /\ UNCHANGED <<clock, primaryWritable, lock, issued, op, arg, now, essays, resp, nops>>

\* get_essays(): out_path = get_schema_path(), before the lock
GetEssays(t) ==
    /\ Idle # {} /\ t = FirstOf(Idle)
    /\ Accept
    /\ op' = [op EXCEPT ![t] = "get"]
    /\ fs' = ProbeEffect(fs)
    /\ path' = [path EXCEPT ![t] = get_schema_path]
    /\ pc' = [pc EXCEPT ![t] = "lock"]
    /\ UNCHANGED <<clock, primaryWritable, lock, issued, arg, now, essays, resp>>

\* Mutant of ApproveInvalid: the two checks come after
\* `out_path = get_schema_path()`.
ApproveInvalid_AfterProbe(t, pid, fb, lesson) ==
    /\ Idle # {} /\ t = FirstOf(Idle)
    /\ pid = NoId \/ fb = ""
    /\ op' = [op EXCEPT ![t] = "approve"]
    /\ arg' = [arg EXCEPT ![t] = [NoArg EXCEPT !.pid = pid, !.fb = fb, !.lesson = lesson]]
    /\ fs' = ProbeEffect(fs)
    /\ path' = [path EXCEPT ![t] = get_schema_path]
    /\ pc' = [pc EXCEPT ![t] = "done"]
    /\ resp' = [resp EXCEPT ![t] = 400]
    /\ UNCHANGED <<clock, primaryWritable, lock, issued, now, essays, nops>>

\* approve_essay() with no process_id or an empty final_feedback: 400
ApproveInvalid(t, pid, fb, lesson) ==
    /\ Idle # {} /\ t = FirstOf(Idle)
    /\ pid = NoId \/ fb = ""
    /\ op' = [op EXCEPT ![t] = "approve"]
    /\ arg' = [arg EXCEPT ![t] = [NoArg EXCEPT !.pid = pid, !.fb = fb, !.lesson = lesson]]
    /\ pc' = [pc EXCEPT ![t] = "done"]
    /\ resp' = [resp EXCEPT ![t] = 400]
    /\ UNCHANGED <<clock, primaryWritable, fs, lock, issued, now, path, essays, nops>>

\* approve_essay(): get_schema_path(), now_iso, before the lock
Approve(t, pid, fb, lesson, d) ==
    /\ Idle # {} /\ t = FirstOf(Idle)
    /\ ~(pid = NoId \/ fb = "")
    /\ Accept
    /\ ReadClock(d)
    /\ op' = [op EXCEPT ![t] = "approve"]
    /\ arg' = [arg EXCEPT ![t] = [NoArg EXCEPT !.pid = pid, !.fb = fb, !.lesson = lesson]]
    /\ fs' = ProbeEffect(fs)
    /\ path' = [path EXCEPT ![t] = get_schema_path]
    /\ now' = [now EXCEPT ![t] = clock']
    /\ pc' = [pc EXCEPT ![t] = "lock"]
    /\ UNCHANGED <<primaryWritable, lock, issued, essays, resp>>

\* send_report() with no process_id or an unknown report_type: 400
SendReportInvalid(t, pid, rtype) ==
    /\ Idle # {} /\ t = FirstOf(Idle)
    /\ pid = NoId \/ rtype \notin {"student", "parent"}
    /\ op' = [op EXCEPT ![t] = "send"]
    /\ arg' = [arg EXCEPT ![t] = [NoArg EXCEPT !.pid = pid, !.rtype = rtype]]
    /\ pc' = [pc EXCEPT ![t] = "done"]
    /\ resp' = [resp EXCEPT ![t] = 400]
    /\ UNCHANGED <<clock, primaryWritable, fs, lock, issued, now, path, essays, nops>>

\* send_report(): get_schema_path(), now_iso, before the lock
SendReport(t, pid, rtype, d) ==
    /\ Idle # {} /\ t = FirstOf(Idle)
    /\ ~(pid = NoId \/ rtype \notin {"student", "parent"})
    /\ Accept
    /\ ReadClock(d)
    /\ op' = [op EXCEPT ![t] = "send"]
    /\ arg' = [arg EXCEPT ![t] = [NoArg EXCEPT !.pid = pid, !.rtype = rtype]]
    /\ fs' = ProbeEffect(fs)
    /\ path' = [path EXCEPT ![t] = get_schema_path]
    /\ now' = [now EXCEPT ![t] = clock']
    /\ pc' = [pc EXCEPT ![t] = "lock"]
    /\ UNCHANGED <<primaryWritable, lock, issued, essays, resp>>

\* `with _schema_lock:` is entered
Acquire(t) ==
    /\ pc[t] = "lock"
    /\ LockFree
    /\ lock' = t
    /\ pc' = [pc EXCEPT ![t] = "read"]
    /\ UNCHANGED <<clock, primaryWritable, fs, issued, op, arg, now, path, essays, resp, nops>>

\* get_essays(): read, leave the lock, answer 200 with the list
GetEssaysRead(t) ==
    /\ pc[t] = "read" /\ op[t] = "get"
    /\ essays' = [essays EXCEPT ![t] = _read_essays_locked(fs[path[t]])]
    /\ lock' = 0
    /\ resp' = [resp EXCEPT ![t] = 200]
    /\ pc' = [pc EXCEPT ![t] = "done"]
    /\ UNCHANGED <<clock, primaryWritable, fs, issued, op, arg, now, path, nops>>

\* Mutant of AppendRead: essays.insert(0, schema) in place of
\* essays.append(schema).
AppendRead_Prepends(t) ==
    /\ pc[t] = "read" /\ op[t] \in {"bg", "analyze"}
    /\ essays' = [essays EXCEPT ![t] =
           <<build_schema(arg[t].text, arg[t].pid, now[t])>> \o
               _read_essays_locked(fs[path[t]])]
    /\ pc' = [pc EXCEPT ![t] = "write"]
    /\ UNCHANGED <<clock, primaryWritable, fs, lock, issued, op, arg, now, path, resp, nops>>

\* Mutant of AppendRead: the record is appended to the list the thread has in
\* memory; the file is not read again inside the lock.
AppendRead_Cached(t) ==
    /\ pc[t] = "read" /\ op[t] \in {"bg", "analyze"}
    /\ essays' = [essays EXCEPT ![t] =
           Append(essays[t], build_schema(arg[t].text, arg[t].pid, now[t]))]
    /\ pc' = [pc EXCEPT ![t] = "write"]
    /\ UNCHANGED <<clock, primaryWritable, fs, lock, issued, op, arg, now, path, resp, nops>>

\* _append_essay_safe: essays = read(); essays.append(schema)
AppendRead(t) ==
    /\ pc[t] = "read" /\ op[t] \in {"bg", "analyze"}
    /\ essays' = [essays EXCEPT ![t] =
           Append(_read_essays_locked(fs[path[t]]),
                  build_schema(arg[t].text, arg[t].pid, now[t]))]
    /\ pc' = [pc EXCEPT ![t] = "write"]
    /\ UNCHANGED <<clock, primaryWritable, fs, lock, issued, op, arg, now, path, resp, nops>>

\* Mutant of MutateNotFound: the lock is taken with acquire() and the 404
\* return leaves without release().
MutateNotFound_KeepsLock(t) ==
    /\ pc[t] = "read" /\ op[t] \in {"approve", "send"}
    /\ FindIndex(_read_essays_locked(fs[path[t]]), arg[t].pid) = 0
    /\ resp' = [resp EXCEPT ![t] = 404]
    /\ pc' = [pc EXCEPT ![t] = "done"]
    /\ UNCHANGED <<clock, primaryWritable, fs, lock, issued, op, arg, now, path, essays, nops>>

\* approve_essay / send_report: read and scan for process_id; none matches:
\* `return ..., 404` inside the `with`, nothing is written
MutateNotFound(t) ==
    /\ pc[t] = "read" /\ op[t] \in {"approve", "send"}
    /\ FindIndex(_read_essays_locked(fs[path[t]]), arg[t].pid) = 0
    /\ lock' = 0
    /\ resp' = [resp EXCEPT ![t] = 404]
    /\ pc' = [pc EXCEPT ![t] = "done"]
    /\ UNCHANGED <<clock, primaryWritable, fs, issued, op, arg, now, path, essays, nops>>

\* approve_essay / send_report: read, scan, change the located record in memory
MutateRead(t) ==
    /\ pc[t] = "read" /\ op[t] \in {"approve", "send"}
    /\ LET list == _read_essays_locked(fs[path[t]])
           i == FindIndex(list, arg[t].pid)
       IN /\ i # 0
          /\ essays' = [essays EXCEPT ![t] = [list EXCEPT ![i] =
                 IF op[t] = "approve"
                 THEN ApproveMutate(list[i], arg[t].fb, arg[t].lesson, now[t])
                 ELSE SendMutate(list[i], arg[t].rtype, now[t])]]
    /\ pc' = [pc EXCEPT ![t] = "write"]
    /\ UNCHANGED <<clock, primaryWritable, fs, lock, issued, op, arg, now, path, resp, nops>>

\* _write_essays_locked, the end of the `with`, and the handler's answer
Write(t) ==
    /\ pc[t] = "write"
    /\ fs' = _write_essays_locked(fs, path[t], essays[t])
    /\ lock' = 0
    /\ resp' = [resp EXCEPT ![t] = IF op[t] = "bg" THEN 0 ELSE 200]
    /\ pc' = [pc EXCEPT ![t] = "done"]
    /\ UNCHANGED <<clock, primaryWritable, issued, op, arg, now, path, essays, nops>>

\* _write_essays_locked raises OSError: open(out_path, "w") fails and the file
\* is as it was, or the dump fails after the open has truncated the file and
\* what is left does not parse.  The exception leaves the `with` block, which
\* releases the lock; the handler's except answers 500, the background
\* thread's except logs and the thread ends.
WriteFail(t) ==
    /\ pc[t] = "write"
    /\ \/ fs' = fs
       \/ fs' = [fs EXCEPT ![path[t]] = EmptyFile]
    /\ lock' = 0
    /\ resp' = [resp EXCEPT ![t] = IF op[t] = "bg" THEN 0 ELSE 500]
    /\ pc' = [pc EXCEPT ![t] = "done"]
    /\ UNCHANGED <<clock, primaryWritable, issued, op, arg, now, path, essays, nops>>

\* Mutant of Return: a background thread that ended in its except branch is
\* run again.
Return_Restarts(t) ==
    /\ pc[t] = "done"
    /\ IF op[t] = "bg" /\ now[t] = NoTime
       THEN /\ pc' = [pc EXCEPT ![t] = "gen"]
            /\ UNCHANGED <<op, arg, now, path, essays, resp>>
       ELSE /\ pc' = [pc EXCEPT ![t] = "idle"]
            /\ op' = [op EXCEPT ![t] = "none"]
            /\ arg' = [arg EXCEPT ![t] = NoArg]
            /\ now' = [now EXCEPT ![t] = NoTime]
            /\ path' = [path EXCEPT ![t] = "none"]
            /\ essays' = [essays EXCEPT ![t] = <<>>]
            /\ resp' = [resp EXCEPT ![t] = 0]
    /\ UNCHANGED <<clock, primaryWritable, fs, lock, issued, nops>>

\* the request thread / background thread is gone; its locals with it
Return(t) ==
    /\ pc[t] = "done"
    /\ pc' = [pc EXCEPT ![t] = "idle"]
    /\ op' = [op EXCEPT ![t] = "none"]
    /\ arg' = [arg EXCEPT ![t] = NoArg]
    /\ now' = [now EXCEPT ![t] = NoTime]
    /\ path' = [path EXCEPT ![t] = "none"]
    /\ essays' = [essays EXCEPT ![t] = <<>>]
    /\ resp' = [resp EXCEPT ![t] = 0]
    /\ UNCHANGED <<clock, primaryWritable, fs, lock, issued, nops>>

Delays == 0..MaxClock

Next ==
    \E t \in Threads :
        \/ SubmitEmpty(t)
        \/ \E text \in Texts, hex \in Draws, d \in Delays : Submit(t, text, hex, d)
        \/ \E text \in Texts : Analyze(t, text)
        \/ \E hex \in Draws, d \in Delays : GenerateOk(t, hex, d)
        \/ \E outcome \in GenOutcomes : GenerateFail(t, outcome)
        \/ ResolvePath(t)
        \/ GetEssays(t)
        \/ \E pid \in RequestIds \cup {NoId}, body \in ApproveBodies :
              ApproveInvalid(t, pid, body.fb, body.lesson)
        \/ \E pid \in RequestIds \cup {NoId}, body \in ApproveBodies, d \in Delays :
              Approve(t, pid, body.fb, body.lesson, d)
        \/ \E pid \in RequestIds \cup {NoId}, rtype \in ReportTypes : SendReportInvalid(t, pid, rtype)
        \/ \E pid \in RequestIds \cup {NoId}, rtype \in ReportTypes, d \in Delays :
              SendReport(t, pid, rtype, d)
        \/ Acquire(t)
        \/ GetEssaysRead(t)
        \/ AppendRead(t)
        \/ MutateNotFound(t)
        \/ MutateRead(t)
        \/ Write(t)
        \/ Return(t)

\* a fresh deployment: no store file yet
Spec == Init /\ [][Next]_vars

\* the process is started over a store that an earlier run left behind
SpecStored == InitStored /\ [][Next]_vars

\* the process is started over a store file that does not parse
SpecCorrupt == InitCorrupt /\ [][Next]_vars

\* one step of a request or background thread t that is under way
Step(t) ==
    \/ \E hex \in Draws, d \in Delays : GenerateOk(t, hex, d)
    \/ \E outcome \in GenOutcomes : GenerateFail(t, outcome)
    \/ ResolvePath(t)
    \/ Acquire(t)
    \/ GetEssaysRead(t)
    \/ AppendRead(t)
    \/ MutateNotFound(t)
    \/ MutateRead(t)
    \/ Write(t)
    \/ WriteFail(t)
    \/ Return(t)

NextFaulty == Next \/ \E t \in Threads : WriteFail(t)

\* the process over a stored record, with writes that can fail.  Every thread
\* under way is scheduled again and again; a run takes up finitely many
\* requests, so a thread waiting for the lock finds it free for good once the
\* others are through.
SpecFaulty ==
    InitStored /\ [][NextFaulty]_vars /\ \A t \in Threads : WF_vars(Step(t))

\* N background threads complete and append, nothing else runs
NextAppend ==
    \E t \in Threads :
        \/ \E hex \in Draws, d \in Delays : GenerateOk(t, hex, d)
        \/ ResolvePath(t)
        \/ Acquire(t)
        \/ AppendRead(t)
        \/ Write(t)
        \/ Return(t)

SpecAppend == InitAppend /\ [][NextAppend]_vars

\* one step of background thread t: process_essay_in_background from the
\* generator call to the end of the thread
TaskStep(t) ==
    \/ \E hex \in Draws, d \in Delays : GenerateOk(t, hex, d)
    \/ \E outcome \in GenOutcomes : GenerateFail(t, outcome)
    \/ ResolvePath(t)
    \/ Acquire(t)
    \/ AppendRead(t)
    \/ Write(t)
    \/ Return(t)

NextTasks == \E t \in Threads : TaskStep(t)

\* N background threads, each of which completes or fails.  Every thread is
\* scheduled again and again, and the generator call returns or raises
\* (requests.post has timeout=90): a thread that can take a step takes one.
SpecTasks ==
    InitAppend /\ [][NextTasks]_vars /\ \A t \in Threads : WF_vars(TaskStep(t))

----------------------------------------------------------------------------
(* Vocabulary of the properties *)

\* the persisted collection: what a read of the store file yields
Collection ==
    LET file == fs[IF primaryWritable THEN PRIMARY ELSE TMP]
    IN IF file.st = "doc" THEN file.data ELSE <<>>

IdsOf(list) == {list[i].process_id : i \in 1..Len(list)}

\* the positions of the records of list whose process_id is pid
Matches(list, pid) == {i \in 1..Len(list) : list[i].process_id = pid}

\* the threads inside the critical section
InCritical == {t \in Threads : pc[t] \in {"read", "write"}}

\* thread t ends its critical section in this step by writing the file
Writes(t) == pc[t] = "write" /\ pc'[t] = "done"

\* the record at position i of the collection, before and after a step
Before(i) == Collection[i]
After(i) == Collection'[i]

\* a record without its timestamp
NoTimes(e) == [e EXCEPT !.updated_at = NoTime]

\* the state in which approve(fb, lesson) leaves a record
Approved(e, a) ==
    /\ e.status = "completed"
    /\ e.current_step = 5
    /\ e.teacher_final_feedback = a.fb
    /\ e.final_feedback = a.fb
    /\ e.lesson_feedback = a.lesson
    /\ e.tc_ai_draft_feedback = e.ai_draft_feedback

\* the keys approve does not touch
SameOutsideApprove(e, f) ==
    /\ e.process_id = f.process_id
    /\ e.student_answer = f.student_answer
    /\ e.ai_draft_feedback = f.ai_draft_feedback
    /\ e.student_sent = f.student_sent
    /\ e.parent_sent = f.parent_sent

----------------------------------------------------------------------------
(* C1 *)

\* C1: N concurrent _append_essay_safe calls over a store that does not exist
\* yet leave, once all have completed, exactly N records carrying the N
\* process ids of the calls: no append is lost, whatever the order.
C1_NoLostAppend ==
    (\A t \in Threads : pc[t] \in {"done", "idle"}) =>
        /\ Len(Collection) = NThreads
        /\ IdsOf(Collection) = {AppendId(t) : t \in Threads}
        /\ Cardinality(IdsOf(Collection)) = NThreads

\* all appends are done and the thread started last was appended first
C1_Witness ==
    /\ \A t \in Threads : pc[t] \in {"done", "idle"}
    /\ Len(Collection) = NThreads
    /\ Collection[1].process_id = AppendId(NThreads)

----------------------------------------------------------------------------
(* C2 *)

\* C2: get_essays, _append_essay_safe, approve_essay and send_report share
\* _schema_lock: at most one thread is between its read of the store and the
\* end of its read/write, and that thread holds the lock.
C2_MutualExclusion ==
    /\ Cardinality(InCritical) <= 1
    /\ \A t \in InCritical : lock = t

\* an append is inside the critical section, about to write, while an approve
\* waits for the lock
C2_Witness ==
    \E t, u \in Threads :
        /\ op[t] = "bg" /\ pc[t] = "write" /\ lock = t
        /\ op[u] = "approve" /\ pc[u] = "lock"

----------------------------------------------------------------------------
(* C3 *)

\* C3: when the background thread for an id minted by /submit completes its
\* append, the collection holds exactly one record with that process_id, and
\* that record has the initial status.
C3_ExactlyOneDrafted ==
    [][\A t \in Threads :
          (op[t] = "bg" /\ Writes(t)) =>
              /\ Cardinality(Matches(Collection', arg[t].pid)) = 1
              /\ \A i \in Matches(Collection', arg[t].pid) :
                    Collection'[i].status = "ai_drafted"]_vars

----------------------------------------------------------------------------
(* C4 *)

\* C4: every id minted (by /submit, or by build_schema for /analyze) differs
\* from every id minted before, and no two records of the collection share a
\* process_id.
C4_IdsUnique ==
    /\ \A j, k \in 1..Len(issued) : j # k => issued[j] # issued[k]
    /\ \A j, k \in 1..Len(Collection) :
          j # k => Collection[j].process_id # Collection[k].process_id

----------------------------------------------------------------------------
(* C5 *)

\* C5: no step of an approve whose process_id matches no record changes the
\* collection, and the step that has read the store answers 404.
C5_ApproveUnknownNotFound ==
    [][\A t \in Threads :
          (/\ op'[t] = "approve"
           /\ pc'[t] # pc[t]
           /\ Matches(Collection, arg'[t].pid) = {}) =>
              /\ Collection' = Collection
              /\ pc[t] = "read" => (resp'[t] = 404 /\ pc'[t] = "done" /\ fs' = fs)]_vars

\* an approve for an id that matches nothing was answered 404 over a store
\* that holds a record
C5_Witness ==
    \E t \in Threads :
        /\ op[t] = "approve" /\ pc[t] = "done" /\ resp[t] = 404
        /\ Len(Collection) > 0
        /\ Matches(Collection, arg[t].pid) = {}

----------------------------------------------------------------------------
(* C6 *)

\* C6: approve on an existing record leaves it completed, in the state its
\* arguments determine, with every other key but the timestamp as it was; on
\* a record that the same call already approved it changes nothing but the
\* timestamp.
C6_ApproveIdempotent ==
    [][\A t \in Threads :
          (op[t] = "approve" /\ Writes(t)) =>
              /\ Matches(Collection, arg[t].pid) # {}
              /\ Len(Collection') = Len(Collection)
              /\ \E i \in Matches(Collection, arg[t].pid) :
                    /\ After(i).status = "completed"
                    /\ Approved(After(i), arg[t])
                    /\ SameOutsideApprove(After(i), Before(i))
                    /\ Approved(Before(i), arg[t]) => NoTimes(After(i)) = NoTimes(Before(i))
                    /\ \A j \in 1..Len(Collection) : j # i => After(j) = Before(j)
              /\ resp'[t] = 200]_vars

\* the same approve is about to be applied a second time, a second later
C6_Witness ==
    \E t \in Threads :
        /\ op[t] = "approve" /\ pc[t] = "write"
        /\ \E i \in Matches(Collection, arg[t].pid) :
              /\ Approved(Collection[i], arg[t])
              /\ essays[t][i].updated_at # Collection[i].updated_at

----------------------------------------------------------------------------
(* C7 *)

\* C7: send_report("student") on an existing record sets student_sent and
\* leaves parent_sent and the status as they were, whatever the status was;
\* the same with the two flags exchanged for "parent".  It answers 200.
C7_SendReportFrame ==
    [][\A t \in Threads :
          (op[t] = "send" /\ Writes(t)) =>
              /\ Matches(Collection, arg[t].pid) # {}
              /\ Len(Collection') = Len(Collection)
              /\ \E i \in Matches(Collection, arg[t].pid) :
                    /\ After(i).status = Before(i).status
                    /\ arg[t].rtype = "student" =>
                          /\ After(i).student_sent = TRUE
                          /\ After(i).parent_sent = Before(i).parent_sent
                    /\ arg[t].rtype = "parent" =>
                          /\ After(i).parent_sent = TRUE
                          /\ After(i).student_sent = Before(i).student_sent
              /\ resp'[t] = 200]_vars

\* a student report was marked sent on a completed record, the parent report
\* was not
C7_Witness ==
    \E t \in Threads :
        /\ op[t] = "send" /\ pc[t] = "done" /\ resp[t] = 200
        /\ arg[t].rtype = "student"
        /\ \E i \in Matches(Collection, arg[t].pid) :
              /\ Collection[i].status = "completed"
              /\ Collection[i].student_sent
              /\ ~Collection[i].parent_sent

----------------------------------------------------------------------------
(* C8 *)

----------------------------------------------------------------------------
(* C9 *)

\* C9: no step moves a record from completed back, and no step clears a
\* report flag that is set.
C9_LifecycleMonotone ==
    [][\A i \in 1..Len(Collection) :
          /\ i <= Len(Collection')
          /\ Before(i).status = "completed" => After(i).status = "completed"
          /\ Before(i).student_sent => After(i).student_sent
          /\ Before(i).parent_sent => After(i).parent_sent]_vars

\* an approve has rewritten a record whose student report was already sent
C9_Witness ==
    \E t \in Threads :
        /\ op[t] = "approve" /\ pc[t] = "done" /\ resp[t] = 200
        /\ \E i \in Matches(Collection, arg[t].pid) :
              /\ Collection[i].status = "completed"
              /\ Collection[i].student_sent

----------------------------------------------------------------------------
(* C10 *)

\* C10: the store file, when it exists, always holds a complete document:
\* no operation, the path resolution included, leaves it otherwise.
C10_AlwaysValidDocument ==
    \A p \in Paths : fs[p].st \in {"absent", "doc"}

----------------------------------------------------------------------------
(* C11 *)

\* C11: get_essays over a store file that is absent, or that the call's own
\* path resolution has just created with nothing in it, answers 200 with the
\* empty list, and never 500.
C11_ReadAllAbsentIsEmpty ==
    [][\A t \in Threads :
          (/\ op[t] = "get" /\ pc[t] = "read" /\ pc'[t] # pc[t]
           /\ fs[path[t]].st \in {"absent", "empty"}) =>
              /\ pc'[t] = "done"
              /\ resp'[t] = 200
              /\ essays'[t] = <<>>]_vars

\* get_essays has answered 200 with the empty list over the zero-byte
\* schema.json that get_schema_path created
C11_Witness ==
    \E t \in Threads :
        /\ op[t] = "get" /\ pc[t] = "done" /\ resp[t] = 200
        /\ essays[t] = <<>>
        /\ path[t] = PRIMARY /\ fs[PRIMARY] = EmptyFile

----------------------------------------------------------------------------
(* C12 *)

\* the background thread t has ended in its except branch: it never reached
\* build_schema
FailedTask(t) == op[t] = "bg" /\ pc[t] = "done" /\ now[t] = NoTime

\* C12, the answer: the step that starts a background thread is the step in
\* which /submit answers 200 with the thread's process_id, and it leaves the
\* store alone.
C12_SubmitAnswersFirst ==
    \A b \in Threads :
        (op[b] = "none" /\ op'[b] = "bg") =>
            /\ pc'[b] = "gen"
            /\ fs' = fs
            /\ \E t \in Threads :
                  /\ op'[t] = "submit" /\ pc'[t] = "done" /\ resp'[t] = 200
                  /\ arg'[t].pid # NoId /\ arg'[t].pid = arg'[b].pid

\* C12, the failure: the step in which a background thread fails changes
\* neither the store, nor the lock, nor any other thread.
C12_FailureIsLocal ==
    \A t \in Threads :
        (op[t] = "bg" /\ pc[t] = "gen" /\ pc'[t] = "done") =>
            /\ fs' = fs /\ lock' = lock
            /\ \A u \in Threads \ {t} :
                  /\ pc'[u] = pc[u] /\ op'[u] = op[u] /\ arg'[u] = arg[u]
                  /\ essays'[u] = essays[u] /\ resp'[u] = resp[u]

\* C12: /submit answers 200 with an id when it starts the background thread;
\* a background thread that fails (criteria load, generator call, malformed
\* output, record assembly) ends without touching the store or any other
\* thread, and no record with its process_id is in the collection afterwards.
C12_FailedTaskAppendsNothing ==
    [][/\ C12_SubmitAnswersFirst
       /\ C12_FailureIsLocal
       /\ \A t \in Threads :
             (op'[t] = "bg" /\ pc'[t] = "done" /\ now'[t] = NoTime) =>
                 arg'[t].pid \notin IdsOf(Collection')]_vars

\* C12 without its last part: the answer of /submit and the locality of the
\* failure alone
C12_AnswerAndLocality == [][C12_SubmitAnswersFirst /\ C12_FailureIsLocal]_vars

----------------------------------------------------------------------------
(* C13 *)

\* thread t takes up, in this step, an approve with an empty final_feedback
\* or a send-report with an unrecognised report_type
TakesInvalid(t) ==
    /\ pc[t] = "idle"
    /\ \/ op'[t] = "approve" /\ arg'[t].fb = ""
       \/ op'[t] = "send" /\ arg'[t].rtype \notin {"student", "parent"}

\* C13: approve with an empty final_feedback and send-report with a
\* report_type other than student / parent are answered 400 whatever the
\* process_id, in the step that takes the request up: the path is not
\* resolved, the lock not taken, the store neither read nor changed.
C13_ValidationBeforeLock ==
    [][\A t \in Threads :
          TakesInvalid(t) =>
              /\ pc'[t] = "done" /\ resp'[t] = 400
              /\ fs' = fs /\ lock' = lock
              /\ path'[t] = "none" /\ essays'[t] = <<>>]_vars

\* an approve without feedback and a send-report of an unknown kind, both for
\* the id of a stored record, have both been answered 400
C13_Witness ==
    \E t, u \in Threads :
        /\ op[t] = "approve" /\ resp[t] = 400 /\ arg[t].fb = ""
        /\ op[u] = "send" /\ resp[u] = 400 /\ arg[u].rtype = "other"
        /\ arg[t].pid \in IdsOf(Collection)
        /\ arg[u].pid \in IdsOf(Collection)

----------------------------------------------------------------------------
(* C14 *)

\* C14: the store files change only in a step of the thread that holds
\* _schema_lock and is inside its `with` block.
C14_StoreAccessOnlyUnderLock ==
    [][fs' # fs =>
          \E t \in Threads :
              /\ lock = t
              /\ pc[t] \in {"read", "write"}
              /\ pc'[t] # pc[t]]_vars

----------------------------------------------------------------------------
(* C15 *)

\* the collection that thread t's operation makes of the collection list:
\* its own change and nothing else
OwnChange(t, list) ==
    IF op[t] \in {"bg", "analyze"}
    THEN Append(list, build_schema(arg[t].text, arg[t].pid, now[t]))
    ELSE LET i == FindIndex(list, arg[t].pid)
         IN IF i = 0 THEN list
            ELSE [list EXCEPT ![i] =
                    IF op[t] = "approve"
                    THEN ApproveMutate(list[i], arg[t].fb, arg[t].lesson, now[t])
                    ELSE SendMutate(list[i], arg[t].rtype, now[t])]

\* C15: a thread writes while it holds the lock it read under, and what it
\* writes is the collection as it is on disk at that moment with the thread's
\* own change applied: every update completed by another writer is in it.
C15_WritesFreshRead ==
    [][\A t \in Threads :
          Writes(t) =>
              /\ lock = t
              /\ Collection' = OwnChange(t, Collection)]_vars

\* an approve that asked for the lock while an append was under way is about
\* to write, and the list it will write holds the appended record
C15_Witness ==
    \E t, u \in Threads :
        /\ op[t] = "bg" /\ pc[t] = "done" /\ now[t] # NoTime
        /\ op[u] = "approve" /\ pc[u] = "write"
        /\ now[u] < now[t]
        /\ arg[t].pid \in IdsOf(essays[u])
        /\ arg[u].pid # arg[t].pid

----------------------------------------------------------------------------
(* C16 *)

\* C16: a thread that is loading the criteria or waiting for the generator
\* does not hold _schema_lock; so while no thread is inside a `with` block,
\* a thread waiting at `with _schema_lock:` can enter, however many threads
\* are blocked on the generator.
C16_GeneratorOutsideLock ==
    /\ \A t \in Threads : pc[t] = "gen" => lock # t
    /\ \A u \in Threads :
          (pc[u] = "lock" /\ InCritical = {}) => ENABLED Acquire(u)

\* a background thread is blocked on the generator while an approve, taken up
\* after it was started, is inside the critical section
C16_Witness ==
    \E t, u \in Threads :
        /\ op[t] = "bg" /\ pc[t] = "gen"
        /\ op[u] = "approve" /\ pc[u] = "read" /\ lock = u

----------------------------------------------------------------------------
(* C17 *)

\* the process ids of the collection, in the order of the records
IdSeq(list) == [i \in 1..Len(list) |-> list[i].process_id]

\* C17: the records of the collection are in the order in which the
\* appending threads took the lock.  A thread that takes the lock has no
\* record in the collection; while it holds the lock nothing but its own
\* write changes the collection; its write puts its record after all records
\* there are; and the records there are, are those of the threads that have
\* been through the lock.
C17_AppendOrderIsLockOrder ==
    [][/\ \A t \in Threads :
             (pc[t] = "lock" /\ pc'[t] = "read") =>
                 arg[t].pid \notin IdsOf(Collection)
       /\ \A t \in Threads :
             Writes(t) =>
                 /\ lock = t
                 /\ IdSeq(Collection') = Append(IdSeq(Collection), arg[t].pid)
       /\ (\A t \in Threads : ~Writes(t)) => IdSeq(Collection') = IdSeq(Collection)
       /\ IdsOf(Collection') =
              {AppendId(t) : t \in {u \in Threads : pc'[u] \in {"done", "idle"}}}]_vars

\* the record of a thread started later is in the collection while a thread
\* started before it still waits for the generator
C17_Witness ==
    \E t, u \in Threads :
        /\ t < u
        /\ pc[t] = "gen"
        /\ AppendId(u) \in IdsOf(Collection)

----------------------------------------------------------------------------
(* C18 *)

\* the number of records that carry the process_id of background thread t
Appended(t) == Cardinality(Matches(Collection, AppendId(t)))

\* C18: every background thread ends, and stays ended (it is not run again);
\* when it ends, its record is in the collection once if it got as far as
\* the append and not at all if it failed before; at no time is its record
\* there twice.
C18_TasksTerminate ==
    /\ \A t \in Threads : <>[](pc[t] \in {"done", "idle"})
    /\ [][\A t \in Threads :
             /\ pc[t] \in {"done", "idle"} => pc'[t] \in {"done", "idle"}
             /\ (pc[t] # "done" /\ pc'[t] = "done") =>
                    Appended(t)' = (IF now'[t] = NoTime THEN 0 ELSE 1)
             /\ Appended(t)' <= 1]_vars

\* one background thread has ended in failure and another with its record
\* appended
C18_Witness ==
    \E t, u \in Threads :
        /\ pc[t] = "done" /\ now[t] = NoTime /\ Appended(t) = 0
        /\ pc[u] = "done" /\ now[u] # NoTime /\ Appended(u) = 1

----------------------------------------------------------------------------
(* C19 *)

\* the file thread t is about to read exists and does not parse
ReadsCorrupt(t) ==
    /\ pc[t] = "read" /\ pc'[t] # pc[t]
    /\ fs[path[t]].st \in {"corrupt", "empty"}

\* C19: a read of a store file that does not parse yields the empty list and
\* no error: get_essays answers 200 with the empty list; approve and
\* send-report answer 404 and write nothing; an append goes on with a list of
\* its own record only, and its write replaces the damaged file by that list.
C19_CorruptReadAsEmpty ==
    [][\A t \in Threads :
          /\ (ReadsCorrupt(t) /\ op[t] = "get") =>
                 resp'[t] = 200 /\ essays'[t] = <<>> /\ fs' = fs
          /\ (ReadsCorrupt(t) /\ op[t] \in {"approve", "send"}) =>
                 resp'[t] = 404 /\ pc'[t] = "done" /\ fs' = fs
          /\ (ReadsCorrupt(t) /\ op[t] \in {"bg", "analyze"}) =>
                 /\ pc'[t] = "write"
                 /\ essays'[t] = <<build_schema(arg[t].text, arg[t].pid, now[t])>>
          /\ (Writes(t) /\ fs[path[t]].st \in {"corrupt", "empty"}) =>
                 /\ op[t] \in {"bg", "analyze"}
                 /\ fs'[path[t]] =
                        DocFile(<<build_schema(arg[t].text, arg[t].pid, now[t])>>)]_vars

\* an approve of the record that the damaged file held was answered 404, and
\* an append has since replaced the file: the record is gone
C19_Witness ==
    \E t, u \in Threads :
        /\ op[t] = "approve" /\ pc[t] = "done" /\ resp[t] = 404 /\ arg[t].pid = PriorId
        /\ op[u] = "analyze" /\ pc[u] = "done" /\ resp[u] = 200
        /\ now[t] < now[u]
        /\ fs[PRIMARY].st = "doc"
        /\ IdsOf(Collection) = {arg[u].pid}
        /\ PriorId \notin IdsOf(Collection)

----------------------------------------------------------------------------
(* C20 *)

\* C20: a thread that leaves its `with _schema_lock:` block, by the end of
\* the block, by the 404 return inside it or by an exception of the write,
\* leaves the lock free; the lock is held only by a thread inside its block;
\* and every thread waiting at the `with` gets the lock.
C20_LockAlwaysReleased ==
    /\ [](lock # 0 => lock \in InCritical)
    /\ [][\A t \in Threads :
             (pc[t] \in {"read", "write"} /\ pc'[t] \notin {"read", "write"}) =>
                 lock' = 0]_vars
    /\ \A t \in Threads : (pc[t] = "lock") ~> (lock = t)

\* an approve has ended in 500 on a failed write, a send-report taken up
\* before it ended has been answered 404 after it, and the lock is free
C20_Witness ==
    \E t, u \in Threads :
        /\ op[t] = "approve" /\ pc[t] = "done" /\ resp[t] = 500
        /\ op[u] = "send" /\ pc[u] = "done" /\ resp[u] = 404
        /\ arg[u].pid = PriorId
        /\ lock = 0

====
